---- MODULE Spec2Model ----
(***************************************************************************)
(* The three-stage research pipeline of "AI research agent":               *)
(*   core/orchestrator.py      AIResearchOrchestrator                      *)
(*   agents/research_agent.py  ResearchAgent                               *)
(*   agents/analysis_agent.py  AnalysisAgent                               *)
(*   agents/decision_agent.py  DecisionAgent                               *)
(*   tools/*.py                SearchTool, SummarizationTool, DecisionTool *)
(*   core/llm_factory.py       LLMFactory                                  *)
(*                                                                         *)
(* The program is sequential.  One step of the model is the code between   *)
(* two blocking requests (HTTP search, LLM invoke): it takes the response  *)
(* of the request in flight and runs up to the next request or return.     *)
(* The responses of the collaborators and the content of the environment   *)
(* variable GROQ_API_KEY are the inputs, drawn with \E.                    *)
(***************************************************************************)
EXTENDS Integers, Sequences, FiniteSets, TLC

VARIABLES pc, query, inflight, calls, stages, faults, search_results, findings,
          decision_output, research, analysis, decisions, report, escaped, runs, hist

vars == <<pc, query, inflight, calls, stages, faults, search_results, findings,
          decision_output, research, analysis, decisions, report, escaped, runs, hist>>

(***************************************************************************)
(* Bounds of the model.                                                    *)
(***************************************************************************)
\* process_query calls made on one orchestrator
MaxRuns == 2

(***************************************************************************)
(* Text.  A str produced by the LLM is [toks |-> a sequence of tokens]; a  *)
(* token is [q, s]: q says that s is a JSON string literal (written in     *)
(* quotes).  Whitespace is the token Ws.  A Python string literal of the   *)
(* program is a one-token text, an f-string one token per piece.           *)
(***************************************************************************)
P(s) == [q |-> FALSE, s |-> s]
S(s) == [q |-> TRUE, s |-> s]
Ws == P(" ")
Text(toks) == [toks |-> toks]
\* an f-string: its pieces in order, an empty piece adds nothing
FStr(pieces) == Text([i \in 1..Len(SelectSeq(pieces, LAMBDA x : x # "")) |->
                        P(SelectSeq(pieces, LAMBDA x : x # "")[i])])
Lit(s) == FStr(<<s>>)

RECURSIVE LStrip(_)
LStrip(t) == IF t # <<>> /\ Head(t) = Ws THEN LStrip(Tail(t)) ELSE t

RECURSIVE RStrip(_)
RStrip(t) == IF t # <<>> /\ t[Len(t)] = Ws THEN RStrip(SubSeq(t, 1, Len(t) - 1)) ELSE t

\* str.strip()
Strip(text) == Text(RStrip(LStrip(text.toks)))

(***************************************************************************)
(* JSON values as Python holds them after json.loads: dict (insertion      *)
(* ordered), list, str, number, None.  Every value is a record of the same *)
(* shape so that any two values can be compared.                           *)
(***************************************************************************)
JNull == [t |-> "null", s |-> "", items |-> <<>>, pairs |-> <<>>]
JStr(s) == [t |-> "str", s |-> s, items |-> <<>>, pairs |-> <<>>]
JNum(s) == [t |-> "num", s |-> s, items |-> <<>>, pairs |-> <<>>]
JList(items) == [t |-> "list", s |-> "", items |-> items, pairs |-> <<>>]
JObj(pairs) == [t |-> "obj", s |-> "", items |-> <<>>, pairs |-> pairs]
KV(k, v) == [k |-> k, v |-> v]

HasKey(d, k) == \E i \in 1..Len(d.pairs) : d.pairs[i].k = k

\* dict.get(k, default) on a dict
DictGet(d, k, default) ==
    IF HasKey(d, k)
    THEN d.pairs[CHOOSE i \in 1..Len(d.pairs) : d.pairs[i].k = k].v
    ELSE default

\* d[k] = v on a dict: a key already present keeps its place
DictSet(pairs, k, v) ==
    IF \E i \in 1..Len(pairs) : pairs[i].k = k
    THEN [i \in 1..Len(pairs) |-> IF pairs[i].k = k THEN KV(k, v) ELSE pairs[i]]
    ELSE Append(pairs, KV(k, v))

\* bool(x)
Truthy(v) ==
    CASE v.t = "obj" -> v.pairs # <<>>
      [] v.t = "list" -> v.items # <<>>
      [] v.t = "str" -> v.s # ""
      [] v.t = "num" -> v.s # "0"
      [] OTHER -> FALSE

(***************************************************************************)
(* json.loads.  Whitespace between tokens is skipped; the text must be one *)
(* value with nothing after it, otherwise JSONDecodeError.                 *)
(***************************************************************************)
NumberTokens == {"0", "42"}
ParseFail == [ok |-> FALSE, val |-> JNull, rest |-> <<>>]
ParseOk(v, rest) == [ok |-> TRUE, val |-> v, rest |-> rest]

RECURSIVE ParseValue(_), ParseElems(_, _), ParseMembers(_, _)
ParseValue(toks) ==
    IF toks = <<>> THEN ParseFail
    ELSE LET h == Head(toks)
             r == Tail(toks)
         IN  IF h.q THEN ParseOk(JStr(h.s), r)
             ELSE IF h.s = "null" THEN ParseOk(JNull, r)
             ELSE IF h.s \in NumberTokens THEN ParseOk(JNum(h.s), r)
             ELSE IF h.s = "["
                  THEN IF r # <<>> /\ Head(r) = P("]")
                       THEN ParseOk(JList(<<>>), Tail(r))
                       ELSE ParseElems(r, <<>>)
             ELSE IF h.s = "{"
                  THEN IF r # <<>> /\ Head(r) = P("}")
                       THEN ParseOk(JObj(<<>>), Tail(r))
                       ELSE ParseMembers(r, <<>>)
             ELSE ParseFail

ParseElems(toks, acc) ==
    LET v == ParseValue(toks)
    IN  IF ~v.ok \/ v.rest = <<>> THEN ParseFail
        ELSE IF Head(v.rest) = P(",")
             THEN ParseElems(Tail(v.rest), Append(acc, v.val))
        ELSE IF Head(v.rest) = P("]")
             THEN ParseOk(JList(Append(acc, v.val)), Tail(v.rest))
        ELSE ParseFail

ParseMembers(toks, acc) ==
    IF Len(toks) < 3 \/ ~toks[1].q \/ toks[2] # P(":") THEN ParseFail
    ELSE LET v == ParseValue(SubSeq(toks, 3, Len(toks)))
         IN  IF ~v.ok \/ v.rest = <<>> THEN ParseFail
             ELSE IF Head(v.rest) = P(",")
                  THEN ParseMembers(Tail(v.rest), DictSet(acc, toks[1].s, v.val))
             ELSE IF Head(v.rest) = P("}")
                  THEN ParseOk(JObj(DictSet(acc, toks[1].s, v.val)), Tail(v.rest))
             ELSE ParseFail

\* json.loads(text): [ok |-> FALSE] stands for JSONDecodeError
JsonLoads(text) ==
    LET v == ParseValue(SelectSeq(text.toks, LAMBDA tok : tok # Ws))
    IN  IF v.ok /\ v.rest = <<>> THEN [ok |-> TRUE, val |-> v.val]
        ELSE [ok |-> FALSE, val |-> JNull]

(***************************************************************************)
(* json.dumps(value, indent=2): line breaks and indentation are Ws.        *)
(***************************************************************************)
RECURSIVE DumpValue(_), DumpItems(_), DumpPairs(_)
DumpValue(v) ==
    CASE v.t = "str" -> <<S(v.s)>>
      [] v.t = "num" -> <<P(v.s)>>
      [] v.t = "null" -> <<P("null")>>
      [] v.t = "list" ->
            IF v.items = <<>> THEN <<P("["), P("]")>>
            ELSE <<P("["), Ws>> \o DumpItems(v.items) \o <<Ws, P("]")>>
      [] v.t = "obj" ->
            IF v.pairs = <<>> THEN <<P("{"), P("}")>>
            ELSE <<P("{"), Ws>> \o DumpPairs(v.pairs) \o <<Ws, P("}")>>

DumpItems(items) ==
    IF Len(items) = 1 THEN DumpValue(items[1])
    ELSE DumpValue(items[1]) \o <<P(","), Ws>> \o DumpItems(Tail(items))

DumpPairs(pairs) ==
    LET one == <<S(pairs[1].k), P(":"), Ws>> \o DumpValue(pairs[1].v)
    IN  IF Len(pairs) = 1 THEN one
        ELSE one \o <<P(","), Ws>> \o DumpPairs(Tail(pairs))

JsonDumps(v) == Text(DumpValue(v))

(***************************************************************************)
(* Plain text (the search result).  Only its length, its word count, its   *)
(* split at '.' and the sentences that mention AI are read by the program, *)
(* so a plain text is [segs |-> the pieces text.split('.') gives], each    *)
(* piece [chars, words, ai, glued]: its length, its words, 'AI' in it, and *)
(* whether the '.' before it stands inside a word ("3.1"), so that the     *)
(* word is counted in both pieces and once in the text.                    *)
(***************************************************************************)
Seg(chars, words, ai) == [chars |-> chars, words |-> words, ai |-> ai, glued |-> FALSE]
Glued(chars, words, ai) == [chars |-> chars, words |-> words, ai |-> ai, glued |-> TRUE]
Plain(segs) == [segs |-> segs]

RECURSIVE SumChars(_), SumWords(_)
SumChars(segs) == IF segs = <<>> THEN 0 ELSE Head(segs).chars + SumChars(Tail(segs))
SumWords(segs) == IF segs = <<>> THEN 0 ELSE Head(segs).words + SumWords(Tail(segs))

\* len(text): the pieces and the '.' between them
StrLen(text) == SumChars(text.segs) + (IF text.segs = <<>> THEN 0 ELSE Len(text.segs) - 1)
\* len(text.split())
WordCount(text) == SumWords(text.segs) - Len(SelectSeq(text.segs, LAMBDA x : x.glued))

\* A query: its text, len(query), len(query.split()), 'AI' in query,
\* "generative ai" in query.lower() or "large language model" in query.lower()
Query(s, chars, words, ai, genai) ==
    [s |-> s, chars |-> chars, words |-> words, ai |-> ai, genai |-> genai]

Queries ==
    { Query("AI safety trends", 16, 3, TRUE, FALSE),
      Query("Current trends in generative AI and large language models", 57, 9, TRUE, TRUE) }

Max(a, b) == IF a > b THEN a ELSE b

(***************************************************************************)
(* tools/search_tool.py                                                    *)
(***************************************************************************)
\* the canned answer of the except branch
SearchFallback(q) ==
    Plain(<<Seg(23 + q.chars, 3 + Max(q.words, 1), q.ai),
            Seg(112, 14, TRUE), Seg(64, 10, TRUE), Seg(0, 0, FALSE)>>)

\* the simulated answer when the API has nothing
SearchSimulated(q) ==
    IF q.genai
    THEN Plain(<<Seg(322 + q.chars, 46 + Max(q.words, 1), TRUE), Glued(291, 41, TRUE)>>)
    ELSE Plain(<<Seg(138 + q.chars, 19 + Max(q.words, 1), TRUE),
                 Seg(123, 16, TRUE), Seg(0, 0, FALSE)>>)

\* What requests.get and the API answer: a failure (connection, timeout, HTTP
\* status, no JSON), or data whose formatted lines are `results` (none: <<>>).
HttpFailure == [ok |-> FALSE, results |-> Plain(<<>>)]
HttpData(text) == [ok |-> TRUE, results |-> text]

ApiTexts ==
    { Plain(<<>>),
      Plain(<<Seg(300, 50, TRUE), Seg(199, 30, FALSE)>>),
      Plain(<<Seg(300, 50, TRUE), Seg(200, 30, FALSE)>>),
      Plain(<<Seg(150, 25, FALSE), Seg(150, 25, FALSE), Seg(150, 25, TRUE),
              Seg(150, 25, FALSE), Seg(150, 25, TRUE)>>),
      Plain(<<Seg(400, 70, TRUE), Seg(300, 50, FALSE)>>) }

HttpOutcomes == {HttpFailure} \cup {HttpData(t) : t \in ApiTexts}

\* SearchTool._run(query): never raises
SearchTool_run(q, http) ==
    IF ~http.ok THEN SearchFallback(q)
    ELSE IF http.results.segs = <<>> THEN SearchSimulated(q)
    ELSE http.results

(***************************************************************************)
(* core/llm_factory.py and the LLM                                         *)
(***************************************************************************)
NoExc == [raised |-> FALSE, msg |-> ""]
Exc(m) == [raised |-> TRUE, msg |-> m]

AuthMessage == "GROQ_API_KEY environment variable is required"

\* LLMFactory.create_groq_llm: key is whether GROQ_API_KEY is set
create_groq_llm(key) ==
    IF ~key THEN Exc(AuthMessage) ELSE NoExc

\* What llm.invoke does: it returns a message with `content`, or raises an
\* exception e with str(e) = msg (an exception may carry no message).
LLMReply(content) == [ok |-> TRUE, content |-> content, msg |-> ""]
LLMRaise(m) == [ok |-> FALSE, content |-> Text(<<>>), msg |-> m]

ExcMessages == {"", "Request timed out."}

\* Texts the model draws as the content of an LLM message: prose (with JSON
\* after it), blank, JSON that is no object, and JSON objects of several shapes
\* (recommendations that are objects, strings, both, or null).
Contents ==
    { Text(<<Ws, P("Adoption is growing:"), Ws, P("{"), P("}"), Ws>>),
      Text(<<Ws>>),
      Text(<<P("["), S("Trend 1"), P("]")>>),
      Text(<<Ws, P("{"), P("}"), Ws>>),
      Text(<<P("{"), S("key_trends"), P(":"), Ws, P("["), S("Trend 1"), P(","), Ws,
             S("Trend 2"), P("]"), P("}")>>),
      Text(<<P("{"), S("recommendations"), P(":"), Ws, P("["),
               P("{"), S("action"), P(":"), S("Adopt AI tooling"), P(","),
                       S("rationale"), P(":"), S("Cost"), P(","),
                       S("priority"), P(":"), S("Low"), P(","),
                       S("timeline"), P(":"), S("Long term"), P("}"), P(","),
               P("{"), S("action"), P(":"), S("Train staff"), P("}"),
             P("]"), P("}")>>),
      Text(<<P("{"), S("recommendations"), P(":"), Ws, P("["), S("Train staff"), P("]"),
             P("}")>>),
      Text(<<P("{"), S("recommendations"), P(":"), Ws, P("null"), P("}")>>),
      Text(<<P("{"), S("recommendations"), P(":"), Ws, P("["),
               P("{"), S("priority"), P(":"), S("High"), P("}"), P(","),
               S("Review quarterly"),
             P("]"), P("}")>>) }

LLMOutcomes == {LLMReply(c) : c \in Contents} \cup {LLMRaise(m) : m \in ExcMessages}

\* A tool builds its own LLM inside its try block: a missing key raises there.
ToolLLM(key, llm) ==
    IF create_groq_llm(key).raised THEN LLMRaise(create_groq_llm(key).msg) ELSE llm

(***************************************************************************)
(* tools/summarization_tool.py                                             *)
(***************************************************************************)
\* (mutant) a result of exactly 500 characters is summarized too
SummarizeThresholdInclusive == 500 - 1

SummarizeThreshold == 500
\* (mutant) the extract is made of any text of more than 50 words
FallbackWordLimitLower == 100 - 50

FallbackWordLimit == 100

\* the except branch of SummarizationTool._run
SummarizationFallback(text) ==
    IF WordCount(text) > FallbackWordLimit
    THEN LET sentences == text.segs
             n == Len(sentences)
             summary_sentences ==
                 SubSeq(sentences, 1, 2)
                 \o SelectSeq(SubSeq(sentences, 3, IF n < 5 THEN n ELSE 5),
                              LAMBDA x : x.ai)
             kept == SubSeq(summary_sentences, 1,
                            IF Len(summary_sentences) < 3 THEN Len(summary_sentences) ELSE 3)
         IN  \* '. '.join(kept) + '.'
             Plain([i \in 1..Len(kept) |->
                       IF i = 1 THEN kept[i]
                       ELSE Seg(kept[i].chars + 1, kept[i].words, kept[i].ai)]
                   \o <<Seg(0, 0, FALSE)>>)
    ELSE text

\* SummarizationTool._run(text), given what its LLM call did
SummarizationTool_run(text, llm) ==
    IF llm.ok THEN Strip(llm.content) ELSE SummarizationFallback(text)

(***************************************************************************)
(* agents/research_agent.py                                                *)
(***************************************************************************)
\* What a call returns to its caller: a value, or an exception.
Returned(v) == [raised |-> FALSE, value |-> v, msg |-> ""]
Raised(m) == [raised |-> TRUE, value |-> [none |-> TRUE], msg |-> m]

\* str(e)
StrOf(m) == Lit(m)

ResearchFallbackFindings(q) ==
    FStr(<<"Research completed on ", q.s,
           ". Current AI landscape shows continued advancement in generative AI, enterprise adoption, and emerging regulatory frameworks.">>)

\* the return of the try block
ResearchNormal(q, sr, llm) ==
    [query |-> q, findings |-> Strip(llm.content), raw_search_results |-> sr,
     agent_type |-> "research"]

\* (mutant) the except block re-raises instead of returning the fallback
ResearchHandlerReraises(q, m) == Raised(m)

\* the return of the except block
ResearchHandler(q, m) ==
    Returned([query |-> q, findings |-> ResearchFallbackFindings(q), error |-> StrOf(m),
              agent_type |-> "research"])

\* (mutant) the except block returns the fallback without the error field
ResearchDropsError(q, sr, llm) ==
    IF llm.ok THEN Returned(ResearchNormal(q, sr, llm))
    ELSE Returned([query |-> q, findings |-> ResearchFallbackFindings(q),
                   agent_type |-> "research"])

\* ResearchAgent.research from the answer of its LLM call on
ResearchAgent_research(q, sr, llm) ==
    IF llm.ok THEN Returned(ResearchNormal(q, sr, llm)) ELSE ResearchHandler(q, llm.msg)

(***************************************************************************)
(* agents/analysis_agent.py                                                *)
(***************************************************************************)
_create_fallback_analysis(findings_text) ==
    JObj(<<
      KV("key_trends", JList(<<
          JStr("Continued advancement in large language models and generative AI"),
          JStr("Increased enterprise adoption of AI solutions"),
          JStr("Growing focus on AI safety and regulatory compliance")>>)),
      KV("risks", JList(<<
          JStr("Regulatory uncertainty may impact AI development timelines"),
          JStr("Competitive pressure from rapid technological advancement")>>)),
      KV("opportunities", JList(<<
          JStr("Market expansion in AI-powered business solutions"),
          JStr("Innovation potential in multimodal AI applications")>>)),
      KV("business_impact", JObj(<<
          KV("short_term", JStr("Immediate opportunities in AI tool integration")),
          KV("medium_term", JStr("Transformation of business processes and workflows")),
          KV("long_term", JStr("Fundamental shifts in industry competitive dynamics"))>>)),
      KV("market_dynamics", JList(<<
          JStr("Rapid pace of technological innovation"),
          JStr("Increasing investment in AI infrastructure")>>)) >>)

\* (mutant) no fallback on JSONDecodeError: the analysis stays None
AnalysisParseNoFallback(findings_text, content) == JsonLoads(Strip(content)).val

\* the inner try: json.loads, and the fallback on JSONDecodeError
AnalysisParse(findings_text, content) ==
    IF JsonLoads(Strip(content)).ok
    THEN JsonLoads(Strip(content)).val
    ELSE _create_fallback_analysis(findings_text)

\* (mutant) the except block returns the fallback without the error field
AnalysisHandlerDropsError(research_findings, m) ==
    Returned([original_query |-> research_findings.query,
              analysis |-> _create_fallback_analysis(research_findings.findings),
              agent_type |-> "analysis"])

\* the return of the except block
AnalysisHandler(research_findings, m) ==
    Returned([original_query |-> research_findings.query,
              analysis |-> _create_fallback_analysis(research_findings.findings),
              error |-> StrOf(m), agent_type |-> "analysis"])

\* (mutant) an analysis that lacks one of the five fields is replaced by the
\* fallback
AnalysisFallbackWhenIncomplete(research_findings, llm) ==
    IF llm.ok
    THEN Returned([original_query |-> research_findings.query,
                   analysis |->
                       IF \A k \in {"key_trends", "risks", "opportunities",
                                    "business_impact", "market_dynamics"} :
                              HasKey(AnalysisParse(research_findings.findings, llm.content), k)
                       THEN AnalysisParse(research_findings.findings, llm.content)
                       ELSE _create_fallback_analysis(research_findings.findings),
                   agent_type |-> "analysis"])
    ELSE AnalysisHandler(research_findings, llm.msg)

\* AnalysisAgent.analyze from the answer of its LLM call on
AnalysisAgent_analyze(research_findings, llm) ==
    IF llm.ok
    THEN Returned([original_query |-> research_findings.query,
                   analysis |-> AnalysisParse(research_findings.findings, llm.content),
                   agent_type |-> "analysis"])
    ELSE AnalysisHandler(research_findings, llm.msg)

(***************************************************************************)
(* tools/decision_tool.py                                                  *)
(***************************************************************************)
\* the fallback of the except branch of DecisionTool._run
DecisionToolFallback ==
    JObj(<<
      KV("recommendations", JList(<<
          JObj(<<KV("action", JStr("Monitor AI technology developments closely")),
                 KV("rationale", JStr("Rapid pace of AI advancement requires continuous awareness")),
                 KV("priority", JStr("High")),
                 KV("timeline", JStr("Short term"))>>)>>)),
      KV("key_considerations", JList(<<JStr("Technology adoption costs"),
                                       JStr("Competitive landscape")>>)),
      KV("risk_mitigation", JList(<<JStr("Gradual implementation"),
                                    JStr("Staff training programs")>>)) >>)

\* (mutant) the fallback is returned as the text of the dict, which is not JSON
DecisionTool_run_str(analysis_text, llm) ==
    IF llm.ok THEN Strip(llm.content)
    ELSE Text(<<P("{'recommendations': [], 'key_considerations': [], 'risk_mitigation': []}")>>)

\* DecisionTool._run(analysis), given what its LLM call did
DecisionTool_run(analysis_text, llm) ==
    IF llm.ok THEN Strip(llm.content) ELSE JsonDumps(DecisionToolFallback)

(***************************************************************************)
(* agents/decision_agent.py                                                *)
(***************************************************************************)
_create_fallback_decisions ==
    JObj(<<
      KV("recommendations", JList(<<
          JObj(<<KV("action", JStr("Establish AI monitoring and evaluation framework")),
                 KV("rationale", JStr("Stay informed about AI developments to make timely strategic decisions")),
                 KV("priority", JStr("High")),
                 KV("timeline", JStr("Short term"))>>),
          JObj(<<KV("action", JStr("Assess current business processes for AI integration opportunities")),
                 KV("rationale", JStr("Identify areas where AI can provide competitive advantage")),
                 KV("priority", JStr("Medium")),
                 KV("timeline", JStr("Medium term"))>>)>>)),
      KV("key_considerations", JList(<<JStr("Budget allocation for AI initiatives"),
                                       JStr("Staff training and change management")>>)),
      KV("risk_mitigation", JList(<<JStr("Gradual implementation approach"),
                                    JStr("Regular technology assessment reviews")>>)) >>)

\* the return of the try block
DecisionNormal(analysis_results, value) ==
    Returned([original_query |-> analysis_results.original_query, decisions |-> value,
              agent_type |-> "decision"])

\* the return of the except block
DecisionHandler(analysis_results, m) ==
    Returned([original_query |-> analysis_results.original_query,
              decisions |-> _create_fallback_decisions,
              error |-> StrOf(m), agent_type |-> "decision"])

\* (mutant) the first output is never accepted: the second call is always made
FirstParseOkNever(output) == FALSE

\* json.loads(decision_output) succeeds: decide returns without a second call
FirstParseOk(output) == JsonLoads(output).ok

\* (mutant) the fallback is the one-item set of the decision tool
DecisionSecondParseToolFallback(content) ==
    IF JsonLoads(Strip(content)).ok
    THEN JsonLoads(Strip(content)).val
    ELSE DecisionToolFallback

\* the second parse, and the fallback on JSONDecodeError
DecisionSecondParse(content) ==
    IF JsonLoads(Strip(content)).ok
    THEN JsonLoads(Strip(content)).val
    ELSE _create_fallback_decisions

\* DecisionAgent.decide from the answer of its own (second) LLM call on
DecisionAgent_decide_second(analysis_results, llm) ==
    IF llm.ok
    THEN DecisionNormal(analysis_results, DecisionSecondParse(llm.content))
    ELSE DecisionHandler(analysis_results, llm.msg)

(***************************************************************************)
(* core/orchestrator.py                                                    *)
(***************************************************************************)
TypeName(v) ==
    CASE v.t = "obj" -> "dict"
      [] v.t = "list" -> "list"
      [] v.t = "str" -> "str"
      [] v.t = "num" -> "int"
      [] OTHER -> "NoneType"

NoGet(v) == "'" \o TypeName(v) \o "' object has no attribute 'get'"
NotIterable(v) == "'" \o TypeName(v) \o "' object is not iterable"

\* for rec in recommendations: the values the loop visits
IterItems(v) ==
    CASE v.t = "list" -> v.items
      [] v.t = "obj" -> [i \in 1..Len(v.pairs) |-> JStr(v.pairs[i].k)]
      [] v.t = "str" -> IF v.s = "" THEN <<>> ELSE <<JStr(v.s)>>
      [] OTHER -> <<>>

\* (mutant) the recommendation is passed on as it is
ProjectRecommendationAsIs(rec) == rec

\* (mutant) an absent timeline defaults to "Short term"
ProjectRecommendationShortTerm(rec) ==
    JObj(<<KV("action", DictGet(rec, "action", JStr(""))),
           KV("priority", DictGet(rec, "priority", JStr("Medium"))),
           KV("timeline", DictGet(rec, "timeline", JStr("Short term"))),
           KV("rationale", DictGet(rec, "rationale", JStr("")))>>)

\* one entry of recommended_actions
ProjectRecommendation(rec) ==
    JObj(<<KV("action", DictGet(rec, "action", JStr(""))),
           KV("priority", DictGet(rec, "priority", JStr("Medium"))),
           KV("timeline", DictGet(rec, "timeline", JStr("Medium term"))),
           KV("rationale", DictGet(rec, "rationale", JStr("")))>>)

\* The exception the try block of _format_final_output raises, if any: the
\* first failing .get or iteration in the order the code evaluates them.
FormatException(analysis_data, decision_data) ==
    IF analysis_data.t # "obj" THEN Exc(NoGet(analysis_data))
    ELSE IF decision_data.t # "obj" THEN Exc(NoGet(decision_data))
    ELSE LET recommendations == DictGet(decision_data, "recommendations", JList(<<>>))
             recs == IterItems(recommendations)
         IN  IF recommendations.t \in {"null", "num"} THEN Exc(NotIterable(recommendations))
             ELSE IF \E i \in 1..Len(recs) : recs[i].t # "obj"
                  THEN Exc(NoGet(recs[CHOOSE i \in 1..Len(recs) :
                                        /\ recs[i].t # "obj"
                                        /\ \A j \in 1..(i - 1) : recs[j].t = "obj"]))
             ELSE NoExc

\* (mutant) the orchestrator keeps the findings of the run before and puts
\* them in front of the summary of the next report
FormatNormalRemembers(q, res, analysis_data, decision_data) ==
    LET recs == IterItems(DictGet(decision_data, "recommendations", JList(<<>>)))
    IN  [query |-> q,
         summary |-> IF "report" \in DOMAIN hist.prev /\ "summary" \in DOMAIN hist.prev.report
                     THEN Text(hist.prev.report.summary.toks \o res.findings.toks)
                     ELSE res.findings,
         key_trends |-> DictGet(analysis_data, "key_trends", JList(<<>>)),
         business_impact |-> DictGet(analysis_data, "business_impact", JObj(<<>>)),
         recommended_actions |->
             JList([i \in 1..Len(recs) |-> ProjectRecommendation(recs[i])]),
         status |-> "completed",
         agent_execution_summary |->
             [research_agent |-> IF res.findings.toks # <<>> THEN "completed" ELSE "partial",
              analysis_agent |-> IF Truthy(analysis_data) THEN "completed" ELSE "partial",
              decision_agent |-> IF Truthy(decision_data) THEN "completed" ELSE "partial"]]

\* (mutant) a research record that carries an error is reported as partial
FormatNormalFlagsErrors(q, res, analysis_data, decision_data) ==
    LET recs == IterItems(DictGet(decision_data, "recommendations", JList(<<>>)))
    IN  [query |-> q,
         summary |-> res.findings,
         key_trends |-> DictGet(analysis_data, "key_trends", JList(<<>>)),
         business_impact |-> DictGet(analysis_data, "business_impact", JObj(<<>>)),
         recommended_actions |->
             JList([i \in 1..Len(recs) |-> ProjectRecommendation(recs[i])]),
         status |-> "completed",
         agent_execution_summary |->
             [research_agent |-> IF res.findings.toks # <<>> /\ "error" \notin DOMAIN res
                                 THEN "completed" ELSE "partial",
              analysis_agent |-> IF Truthy(analysis_data) THEN "completed" ELSE "partial",
              decision_agent |-> IF Truthy(decision_data) THEN "completed" ELSE "partial"]]

\* the return of the try block
FormatNormal(q, res, analysis_data, decision_data) ==
    LET recs == IterItems(DictGet(decision_data, "recommendations", JList(<<>>)))
    IN  [query |-> q,
         summary |-> res.findings,
         key_trends |-> DictGet(analysis_data, "key_trends", JList(<<>>)),
         business_impact |-> DictGet(analysis_data, "business_impact", JObj(<<>>)),
         recommended_actions |->
             JList([i \in 1..Len(recs) |-> ProjectRecommendation(recs[i])]),
         status |-> "completed",
         agent_execution_summary |->
             [research_agent |-> IF res.findings.toks # <<>> THEN "completed" ELSE "partial",
              analysis_agent |-> IF Truthy(analysis_data) THEN "completed" ELSE "partial",
              decision_agent |-> IF Truthy(decision_data) THEN "completed" ELSE "partial"]]

\* (mutant) the except block reports the degraded report as completed
FormatDegradedAsCompleted(q, m) ==
    [query |-> q,
     summary |-> Lit("Analysis completed with partial results."),
     key_trends |-> JList(<<JStr("AI technology advancement continues")>>),
     business_impact |-> JObj(<<KV("short_term", JStr("Monitoring recommended"))>>),
     recommended_actions |->
         JList(<<JObj(<<KV("action", JStr("Continue monitoring AI developments")),
                        KV("priority", JStr("Medium"))>>)>>),
     status |-> "completed",
     error |-> StrOf(m)]

\* the return of the except block
FormatDegraded(q, m) ==
    [query |-> q,
     summary |-> Lit("Analysis completed with partial results."),
     key_trends |-> JList(<<JStr("AI technology advancement continues")>>),
     business_impact |-> JObj(<<KV("short_term", JStr("Monitoring recommended"))>>),
     recommended_actions |->
         JList(<<JObj(<<KV("action", JStr("Continue monitoring AI developments")),
                        KV("priority", JStr("Medium"))>>)>>),
     status |-> "completed_with_errors",
     error |-> StrOf(m)]

\* (mutant) _format_final_output without its handler
_format_final_output_unguarded(q, res, ana, dec) ==
    IF FormatException(ana.analysis, dec.decisions).raised
    THEN Raised(FormatException(ana.analysis, dec.decisions).msg)
    ELSE Returned(FormatNormal(q, res, ana.analysis, dec.decisions))

\* AIResearchOrchestrator._format_final_output: its try block and its handler
_format_final_output(q, res, ana, dec) ==
    IF FormatException(ana.analysis, dec.decisions).raised
    THEN Returned(FormatDegraded(q, FormatException(ana.analysis, dec.decisions).msg))
    ELSE Returned(FormatNormal(q, res, ana.analysis, dec.decisions))

\* the report of the except block of process_query
OrchestrationFailed(q, m) ==
    [error |-> FStr(<<"Orchestration failed: ", m>>), query |-> q, status |-> "failed"]

\* (mutant) the except block re-raises
process_query_reraises(q, m) == Raised(m)

\* the except block of process_query
process_query_except(q, m) == Returned(OrchestrationFailed(q, m))

\* (mutant) the constructors swallow the missing key
Orchestrator_init_swallows(key) == NoExc

\* AIResearchOrchestrator.__init__: each agent's constructor builds its LLM
\* outside any try block.
Orchestrator_init(key) == create_groq_llm(key)

\* _execute_research, _execute_analysis, _execute_decisions: the traced call
\* of a stage.  It hands on what the stage returns or raises; esc is an
\* exception raised around the stage's own handler (by the tracing wrapper, or
\* while the handler runs), the case the try block of process_query is for.
StageCall(out, esc) == IF esc.raised THEN Raised(esc.msg) ELSE out

StageEscapes == {NoExc, Exc("stage call raised")}

(***************************************************************************)
(* The state machine.                                                      *)
(*   pc         where the program is: "new" before the orchestrator is     *)
(*              built, "START" once built; r_* inside research, a_* inside *)
(*              analyze, d_* inside decide, each naming the request it     *)
(*              waits for; c_* in process_query between two stages; then   *)
(*              a terminal COMPLETED, COMPLETED_WITH_ERRORS or FAILED      *)
(*   inflight   the requests sent and not yet answered                     *)
(*   calls      the tools invoked and requests sent in this run, in order  *)
(*   stages     the steps of process_query begun in this run, in order     *)
(*   faults     what went wrong in this run                                *)
(*   escaped    the exception that reached the caller of the constructor   *)
(*              or of process_query, if any                                *)
(*   hist       for the comparison of two runs (TwinSpec): the responses   *)
(*              the collaborators gave in this run, in order, and the      *)
(*              query, responses and report of the run before; when        *)
(*              hist.twin holds, the first run draws its responses from    *)
(*              the small sets Twin*, and a later run is given the query   *)
(*              and the responses of the run before it                     *)
(***************************************************************************)
Unbound == [unbound |-> TRUE]
Fault(kind, m) == [kind |-> kind, msg |-> m]
Faulted(kind) == \E f \in faults : f.kind = kind
\* the fault of an LLM call that raised
LLMFault(kind, llm) == IF llm.ok THEN {} ELSE {Fault(kind, llm.msg)}
\* the fault of a stage call that raised around the stage's handler
EscFault(esc) == IF esc.raised THEN {Fault("stage_call_raised", esc.msg)} ELSE {}
Terminal == {"COMPLETED", "COMPLETED_WITH_ERRORS", "FAILED"}

\* What one step takes from the collaborators, as a record of one shape: the
\* answer of the search API, whether GROQ_API_KEY is set, what llm.invoke
\* does, the exception around the stage call.  A step fills in what it uses.
In(http, key, llm, esc) == [http |-> http, key |-> key, llm |-> llm, esc |-> esc]
InHttpKey(http, key) == In(http, key, LLMRaise(""), NoExc)
InLLM(llm, esc) == In(HttpFailure, TRUE, llm, esc)
InKey(key, esc) == In(HttpFailure, key, LLMRaise(""), esc)

TwinHttp ==
    {HttpFailure, HttpData(Plain(<<Seg(300, 50, TRUE), Seg(200, 30, FALSE)>>))}

TwinLLM ==
    { LLMReply(Text(<<Ws, P("Adoption is growing:"), Ws, P("{"), P("}"), Ws>>)),
      LLMReply(Text(<<P("{"), S("key_trends"), P(":"), Ws, P("["), S("Trend 1"), P(","), Ws,
                      S("Trend 2"), P("]"), P("}")>>)),
      LLMReply(Text(<<P("{"), S("recommendations"), P(":"), Ws, P("["), S("Train staff"),
                      P("]"), P("}")>>)),
      LLMRaise("Request timed out.") }

HttpInputs == IF hist.twin THEN TwinHttp ELSE HttpOutcomes
KeyInputs == IF hist.twin THEN {TRUE} ELSE BOOLEAN
LLMInputs == IF hist.twin THEN TwinLLM ELSE LLMOutcomes

\* a run that is given the query and the responses of the run before it
Replaying == hist.twin /\ hist.prev # Unbound

\* the responses of a replayed run are those of the run before, in order
Follows(in) ==
    Replaying => /\ Len(hist.trace) < Len(hist.prev.trace)
                 /\ hist.prev.trace[Len(hist.trace) + 1] = in

Record(in) == IF hist.twin THEN [hist EXCEPT !.trace = Append(@, in)] ELSE hist

NoHist == [twin |-> FALSE, trace |-> <<>>, prev |-> Unbound]

Init ==
    /\ hist = NoHist
    /\ pc = "new"
    /\ query = Unbound
    /\ inflight = {}
    /\ calls = <<>>
    /\ stages = <<>>
    /\ faults = {}
    /\ search_results = Unbound
    /\ findings = Unbound
    /\ decision_output = Unbound
    /\ research = Unbound
    /\ analysis = Unbound
    /\ decisions = Unbound
    /\ report = Unbound
    /\ escaped = NoExc
    /\ runs = 0

\* orchestrator = AIResearchOrchestrator()
Construct ==
    /\ pc = "new"
    /\ \E key \in BOOLEAN :
          /\ escaped' = Orchestrator_init(key)
          /\ pc' = IF Orchestrator_init(key).raised THEN "ctor_raised" ELSE "START"
          /\ faults' = IF key THEN {} ELSE {Fault("init_no_key", AuthMessage)}
    /\ UNCHANGED <<query, inflight, calls, stages, search_results, findings,
                   decision_output, research, analysis, decisions, report, runs, hist>>

\* An exception reaches the try block of process_query: the end of the run,
\* with the report of the except block
Fail(m) ==
    /\ IF process_query_except(query, m).raised
       THEN /\ escaped' = Exc(process_query_except(query, m).msg)
            /\ report' = Unbound
            /\ pc' = "pq_raised"
       ELSE /\ escaped' = escaped
            /\ report' = process_query_except(query, m).value
            /\ pc' = "FAILED"
    /\ inflight' = {}
    /\ search_results' = Unbound
    /\ findings' = Unbound
    /\ decision_output' = Unbound

\* process_query(user_query) up to the search request of research
ProcessQuery ==
    /\ pc \in {"START"} \cup Terminal
    /\ runs < MaxRuns
    /\ \E q \in Queries :
          /\ pc \in Terminal /\ hist.twin => q = query
          /\ query' = q
    /\ hist' = [hist EXCEPT !.trace = <<>>,
                            !.prev = IF pc \in Terminal /\ hist.twin
                                     THEN [query |-> query, trace |-> hist.trace,
                                           report |-> report]
                                     ELSE Unbound]
    /\ runs' = runs + 1
    /\ stages' = <<"research">>
    /\ calls' = <<"search_tool", "http:search">>
    /\ inflight' = {"http:search"}
    /\ faults' = {}
    /\ pc' = "r_search"
    /\ search_results' = Unbound
    /\ findings' = Unbound
    /\ decision_output' = Unbound
    /\ research' = Unbound
    /\ analysis' = Unbound
    /\ decisions' = Unbound
    /\ report' = Unbound
    /\ UNCHANGED escaped

\* research: the search answers; then the summarization tool, if the result
\* is long, up to its LLM request; else up to the research LLM request
SearchReturns ==
    /\ pc = "r_search"
    /\ \E http \in HttpInputs, key \in KeyInputs :
          LET sr == SearchTool_run(query, http)
              long == StrLen(sr) > SummarizeThreshold
              nokey == create_groq_llm(key).raised
          IN  /\ Follows(InHttpKey(http, key))
              /\ hist' = Record(InHttpKey(http, key))
              /\ search_results' = sr
              /\ faults' = faults
                    \cup (IF http.ok THEN {} ELSE {Fault("search_failed", "")})
                    \cup (IF long /\ nokey
                          THEN {Fault("summarize_llm_failed", AuthMessage)} ELSE {})
              /\ IF long /\ ~nokey
                 THEN /\ calls' = calls \o <<"summarization_tool", "llm:summarize">>
                      /\ inflight' = (inflight \ {"http:search"}) \cup {"llm:summarize"}
                      /\ findings' = Unbound
                      /\ pc' = "r_summarize"
                 ELSE /\ calls' = calls \o (IF long THEN <<"summarization_tool">> ELSE <<>>)
                                        \o <<"llm:research">>
                      /\ inflight' = (inflight \ {"http:search"}) \cup {"llm:research"}
                      /\ findings' = IF long
                                     THEN SummarizationTool_run(sr, ToolLLM(key, LLMRaise("")))
                                     ELSE sr
                      /\ pc' = "r_llm"
    /\ UNCHANGED <<query, stages, decision_output, research, analysis, decisions, report,
                   escaped, runs>>

\* research: the summarization LLM answers; up to the research LLM request
SummarizeReturns ==
    /\ pc = "r_summarize"
    /\ \E llm \in LLMInputs :
          /\ Follows(InLLM(llm, NoExc))
          /\ hist' = Record(InLLM(llm, NoExc))
          /\ findings' = SummarizationTool_run(search_results, llm)
          /\ faults' = faults \cup LLMFault("summarize_llm_failed", llm)
    /\ calls' = Append(calls, "llm:research")
    /\ inflight' = (inflight \ {"llm:summarize"}) \cup {"llm:research"}
    /\ pc' = "r_llm"
    /\ UNCHANGED <<query, stages, search_results, decision_output, research, analysis,
                   decisions, report, escaped, runs>>

\* research: its LLM answers and research returns to process_query
ResearchReturns ==
    /\ pc = "r_llm"
    /\ \E llm \in LLMInputs, esc \in StageEscapes :
          LET out == StageCall(ResearchAgent_research(query, search_results, llm), esc)
          IN  /\ Follows(InLLM(llm, esc))
              /\ hist' = Record(InLLM(llm, esc))
              /\ faults' = faults \cup LLMFault("research_llm_failed", llm) \cup EscFault(esc)
              /\ IF out.raised
                 THEN Fail(out.msg) /\ UNCHANGED research
                 ELSE /\ research' = out.value
                      /\ pc' = "c_analysis"
                      /\ inflight' = inflight \ {"llm:research"}
                      /\ search_results' = Unbound
                      /\ findings' = Unbound
                      /\ UNCHANGED <<report, decision_output, escaped>>
    /\ UNCHANGED <<query, calls, stages, analysis, decisions, runs>>

\* (mutant) analyze is called again after it has returned
ExecuteAnalysisAgain ==
    /\ pc \in {"c_analysis", "c_decision"}
    /\ stages' = Append(stages, "analysis")
    /\ calls' = Append(calls, "llm:analysis")
    /\ inflight' = inflight \cup {"llm:analysis"}
    /\ pc' = "a_llm"
    /\ UNCHANGED <<query, faults, search_results, findings, decision_output, research,
                   analysis, decisions, report, escaped, runs, hist>>

\* process_query calls analyze, which runs up to its LLM request
ExecuteAnalysis ==
    /\ pc = "c_analysis"
    /\ stages' = Append(stages, "analysis")
    /\ calls' = Append(calls, "llm:analysis")
    /\ inflight' = inflight \cup {"llm:analysis"}
    /\ pc' = "a_llm"
    /\ UNCHANGED <<query, faults, search_results, findings, decision_output, research,
                   analysis, decisions, report, escaped, runs, hist>>

\* (mutant) analyze asks its LLM once more when the text is not JSON
AnalysisReturnsRetries ==
    /\ pc = "a_llm"
    /\ hist' = hist
    /\ \E llm \in LLMInputs :
          IF llm.ok /\ ~JsonLoads(Strip(llm.content)).ok
             /\ Cardinality({i \in 1..Len(calls) : calls[i] = "llm:analysis"}) < 2
          THEN /\ calls' = Append(calls, "llm:analysis")
               /\ faults' = faults \cup {Fault("analysis_not_json", "")}
               /\ UNCHANGED <<pc, inflight, analysis, report, search_results, findings,
                              decision_output, escaped>>
          ELSE /\ analysis' = AnalysisAgent_analyze(research, llm).value
               /\ faults' = faults \cup LLMFault("analysis_llm_failed", llm)
               /\ pc' = "c_decision"
               /\ inflight' = inflight \ {"llm:analysis"}
               /\ UNCHANGED <<calls, report, search_results, findings, decision_output,
                              escaped>>
    /\ UNCHANGED <<query, stages, research, decisions, runs>>

\* analyze: its LLM answers and analyze returns to process_query
AnalysisReturns ==
    /\ pc = "a_llm"
    /\ \E llm \in LLMInputs, esc \in StageEscapes :
          LET out == StageCall(AnalysisAgent_analyze(research, llm), esc)
          IN  /\ Follows(InLLM(llm, esc))
              /\ hist' = Record(InLLM(llm, esc))
              /\ faults' = faults
                    \cup LLMFault("analysis_llm_failed", llm)
                    \cup (IF llm.ok /\ ~JsonLoads(Strip(llm.content)).ok
                          THEN {Fault("analysis_not_json", "")} ELSE {})
                    \cup EscFault(esc)
              /\ IF out.raised
                 THEN Fail(out.msg) /\ UNCHANGED analysis
                 ELSE /\ analysis' = out.value
                      /\ pc' = "c_decision"
                      /\ inflight' = inflight \ {"llm:analysis"}
                      /\ UNCHANGED <<report, search_results, findings, decision_output,
                                     escaped>>
    /\ UNCHANGED <<query, calls, stages, research, decisions, runs>>

\* decide, once the decision tool has returned `output`: the first parse, then
\* either the return to process_query or the second LLM request
AfterDecisionTool(output, esc, calls1, faults1) ==
    IF FirstParseOk(output)
    THEN LET out == StageCall(DecisionNormal(analysis, JsonLoads(output).val), esc)
         IN  /\ calls' = calls1
             /\ faults' = faults1 \cup EscFault(esc)
             /\ IF out.raised
                THEN Fail(out.msg) /\ UNCHANGED decisions
                ELSE /\ decisions' = out.value
                     /\ pc' = "c_format"
                     /\ inflight' = inflight \ {"llm:decision_tool"}
                     /\ decision_output' = Unbound
                     /\ UNCHANGED <<report, search_results, findings, escaped>>
    ELSE /\ calls' = Append(calls1, "llm:decision")
         /\ faults' = faults1 \cup {Fault("decision_not_json", "")}
         /\ inflight' = (inflight \ {"llm:decision_tool"}) \cup {"llm:decision"}
         /\ decision_output' = output
         /\ pc' = "d_llm"
         /\ UNCHANGED <<decisions, report, search_results, findings, escaped>>

\* process_query calls decide, which runs the decision tool up to its LLM
\* request; without a key the tool returns its fallback at once
ExecuteDecisions ==
    /\ pc = "c_decision"
    /\ stages' = Append(stages, "decision")
    /\ \E key \in KeyInputs, esc \in StageEscapes :
          IF create_groq_llm(key).raised
          THEN /\ Follows(InKey(key, esc))
               /\ hist' = Record(InKey(key, esc))
               /\ AfterDecisionTool(
                      DecisionTool_run(JsonDumps(analysis.analysis),
                                       ToolLLM(key, LLMRaise(""))),
                      esc, Append(calls, "decision_tool"),
                      faults \cup {Fault("tool_llm_failed", AuthMessage)})
          ELSE /\ esc = NoExc
               /\ Follows(InKey(key, NoExc))
               /\ hist' = Record(InKey(key, NoExc))
               /\ calls' = calls \o <<"decision_tool", "llm:decision_tool">>
               /\ inflight' = inflight \cup {"llm:decision_tool"}
               /\ pc' = "d_tool"
               /\ UNCHANGED <<faults, decisions, report, search_results, findings,
                              decision_output, escaped>>
    /\ UNCHANGED <<query, research, analysis, runs>>

\* decide: the LLM of the decision tool answers
DecisionToolReturns ==
    /\ pc = "d_tool"
    /\ \E llm \in LLMInputs, esc \in StageEscapes :
          /\ Follows(InLLM(llm, esc))
          /\ hist' = Record(InLLM(llm, esc))
          /\ AfterDecisionTool(
                 DecisionTool_run(JsonDumps(analysis.analysis), llm),
                 esc, calls, faults \cup LLMFault("tool_llm_failed", llm))
    /\ UNCHANGED <<query, stages, research, analysis, runs>>

\* decide: its own LLM answers and decide returns to process_query
DecisionReturns ==
    /\ pc = "d_llm"
    /\ \E llm \in LLMInputs, esc \in StageEscapes :
          LET out == StageCall(DecisionAgent_decide_second(analysis, llm), esc)
          IN  /\ Follows(InLLM(llm, esc))
              /\ hist' = Record(InLLM(llm, esc))
              /\ faults' = faults
                    \cup LLMFault("decision_llm_failed", llm)
                    \cup (IF llm.ok /\ ~JsonLoads(Strip(llm.content)).ok
                          THEN {Fault("decision_not_json_2", "")} ELSE {})
                    \cup EscFault(esc)
              /\ IF out.raised
                 THEN Fail(out.msg) /\ UNCHANGED decisions
                 ELSE /\ decisions' = out.value
                      /\ pc' = "c_format"
                      /\ inflight' = inflight \ {"llm:decision"}
                      /\ decision_output' = Unbound
                      /\ UNCHANGED <<report, search_results, findings, escaped>>
    /\ UNCHANGED <<query, calls, stages, research, analysis, runs>>

\* process_query formats the report and returns it
FormatFinalOutput ==
    /\ pc = "c_format"
    /\ stages' = Append(stages, "format")
    /\ LET out == _format_final_output(query, research, analysis, decisions)
       IN  IF out.raised
           THEN Fail(out.msg)
           ELSE /\ report' = out.value
                /\ pc' = IF out.value.status = "completed"
                         THEN "COMPLETED" ELSE "COMPLETED_WITH_ERRORS"
                /\ UNCHANGED <<inflight, search_results, findings, decision_output, escaped>>
    /\ UNCHANGED <<query, calls, faults, research, analysis, decisions, runs, hist>>

Next ==
    \/ Construct
    \/ ProcessQuery
    \/ SearchReturns
    \/ SummarizeReturns
    \/ ResearchReturns
    \/ ExecuteAnalysis
    \/ AnalysisReturns
    \/ ExecuteDecisions
    \/ DecisionToolReturns
    \/ DecisionReturns
    \/ FormatFinalOutput

Spec == Init /\ [][Next]_vars

\* Two runs compared: the first draws its responses from the Twin sets, each
\* later run is given the query and the responses of the run before it.
TwinInit ==
    /\ hist = [twin |-> TRUE, trace |-> <<>>, prev |-> Unbound]
    /\ pc = "new"
    /\ query = Unbound
    /\ inflight = {}
    /\ calls = <<>>
    /\ stages = <<>>
    /\ faults = {}
    /\ search_results = Unbound
    /\ findings = Unbound
    /\ decision_output = Unbound
    /\ research = Unbound
    /\ analysis = Unbound
    /\ decisions = Unbound
    /\ report = Unbound
    /\ escaped = NoExc
    /\ runs = 0

TwinSpec == TwinInit /\ [][Next]_vars

(***************************************************************************)
(* Vocabulary of the properties.                                           *)
(***************************************************************************)
\* the state of the coordinator's state machine
CoordState ==
    CASE pc \in {"r_search", "r_summarize", "r_llm"} -> "RESEARCHING"
      [] pc \in {"c_analysis", "a_llm"} -> "ANALYZING"
      [] pc \in {"c_decision", "d_tool", "d_llm"} -> "DECIDING"
      [] pc = "c_format" -> "FORMATTING"
      [] OTHER -> pc

InCalls(c) == \E i \in 1..Len(calls) : calls[i] = c
StageOrder == <<"research", "analysis", "decision", "format">>
AfterResearch == {"c_analysis", "a_llm", "c_decision", "d_tool", "d_llm", "c_format",
                  "COMPLETED", "COMPLETED_WITH_ERRORS"}
AfterAnalysis == {"c_decision", "d_tool", "d_llm", "c_format",
                  "COMPLETED", "COMPLETED_WITH_ERRORS"}
AfterDecision == {"c_format", "COMPLETED", "COMPLETED_WITH_ERRORS"}
Keys(d) == {d.pairs[i].k : i \in 1..Len(d.pairs)}
ItemsOf(d, k) == DictGet(d, k, JList(<<>>)).items

(***************************************************************************)
(* C1: whatever the search and the LLM do, process_query returns a report  *)
(* whose status is completed, completed_with_errors or failed, and no      *)
(* exception reaches its caller.                                           *)
(***************************************************************************)
C1_AlwaysAReport ==
    /\ pc # "pq_raised"
    /\ (runs > 0 => ~escaped.raised)
    /\ (pc \in Terminal =>
          /\ "status" \in DOMAIN report
          /\ report.status \in {"completed", "completed_with_errors", "failed"})

C1_Witness ==
    /\ pc = "COMPLETED_WITH_ERRORS"
    /\ Faulted("research_llm_failed")
    /\ Faulted("search_failed")

(***************************************************************************)
(* C2: a failure of the search or of an LLM call, or an LLM text that is   *)
(* not JSON, is recovered inside the stage where it happens: the stage     *)
(* returns a result holding its fallback value, the coordinator goes on,   *)
(* and the run does not end failed because of it.                          *)
(***************************************************************************)
C2_RecoveredInStage ==
    ~Faulted("stage_call_raised") =>
        /\ pc \notin {"FAILED", "pq_raised"}
        /\ (Faulted("search_failed") /\ pc \in {"r_summarize", "r_llm"} =>
                search_results = SearchFallback(query))
        /\ (Faulted("summarize_llm_failed") => pc \in {"r_llm"} \cup AfterResearch)
        /\ (Faulted("research_llm_failed") =>
                /\ pc \in AfterResearch
                /\ research.findings = ResearchFallbackFindings(query))
        /\ (Faulted("analysis_llm_failed") \/ Faulted("analysis_not_json") =>
                /\ pc \in AfterAnalysis
                /\ analysis.analysis = _create_fallback_analysis(research.findings))
        /\ (Faulted("tool_llm_failed") =>
                /\ pc \in AfterDecision
                /\ decisions.decisions = DecisionToolFallback)
        /\ (Faulted("decision_llm_failed") \/ Faulted("decision_not_json_2") =>
                /\ pc \in AfterDecision
                /\ decisions.decisions = _create_fallback_decisions)

C2_Witness ==
    /\ pc = "COMPLETED"
    /\ Faulted("search_failed")
    /\ Faulted("research_llm_failed")
    /\ Faulted("analysis_not_json")
    /\ Faulted("decision_llm_failed")

(***************************************************************************)
(* C3: if every LLM call of research fails, research returns a finding     *)
(* whose findings is the fixed sentence around the query.  As claimed, the *)
(* error field is also present and non-empty; as amended, the error field  *)
(* is present and is the text of the exception, which is empty when the    *)
(* exception carries no message.                                           *)
(***************************************************************************)
ResearchLLMsFailed ==
    /\ research # Unbound
    /\ Faulted("research_llm_failed")
    /\ (InCalls("summarization_tool") => Faulted("summarize_llm_failed"))

FixedSentenceAround(q) ==
    Text(<<P("Research completed on "), P(q.s),
           P(". Current AI landscape shows continued advancement in generative AI, enterprise adoption, and emerging regulatory frameworks.")>>)

C3_Original ==
    ResearchLLMsFailed =>
        /\ research.findings = FixedSentenceAround(query)
        /\ "error" \in DOMAIN research
        /\ research.error.toks # <<>>

C3_Amended ==
    ResearchLLMsFailed =>
        /\ research.findings = FixedSentenceAround(query)
        /\ research.query = query
        /\ "error" \in DOMAIN research
        /\ \E f \in faults :
              /\ f.kind = "research_llm_failed"
              /\ research.error = (IF f.msg = "" THEN Text(<<>>) ELSE Text(<<P(f.msg)>>))

C3_Witness ==
    /\ ResearchLLMsFailed
    /\ InCalls("summarization_tool")
    /\ research.error.toks = <<>>

(***************************************************************************)
(* C4: if the analysis LLM returns text that is not JSON, the analysis     *)
(* field is the fixed fallback object: 3 key trends, 2 risks, 2            *)
(* opportunities, 3 business-impact horizons, 2 market dynamics, the same  *)
(* whatever the findings are.                                              *)
(***************************************************************************)
C4_FallbackAnalysis ==
    (analysis # Unbound /\ Faulted("analysis_not_json")) =>
        /\ analysis.analysis = _create_fallback_analysis(Text(<<>>))
        /\ Keys(analysis.analysis) =
              {"key_trends", "risks", "opportunities", "business_impact", "market_dynamics"}
        /\ Len(ItemsOf(analysis.analysis, "key_trends")) = 3
        /\ Len(ItemsOf(analysis.analysis, "risks")) = 2
        /\ Len(ItemsOf(analysis.analysis, "opportunities")) = 2
        /\ Keys(DictGet(analysis.analysis, "business_impact", JNull)) =
              {"short_term", "medium_term", "long_term"}
        /\ Len(ItemsOf(analysis.analysis, "market_dynamics")) = 2

C4_Witness ==
    /\ pc = "c_decision"
    /\ Faulted("analysis_not_json")
    /\ research.findings.toks = <<>>

(***************************************************************************)
(* C5: if the output of the decision tool is not JSON and the output of    *)
(* the second LLM call is not JSON either, the decisions field is the      *)
(* fallback of DecisionAgent.  As claimed, that fallback has one           *)
(* recommendation; as amended, it has two (a High priority, Short term one *)
(* and a Medium priority, Medium term one), two key considerations and two *)
(* risk mitigations.                                                       *)
(***************************************************************************)
BothDecisionOutputsNotJson ==
    /\ decisions # Unbound
    /\ Faulted("decision_not_json")
    /\ Faulted("decision_not_json_2")

C5_Original ==
    BothDecisionOutputsNotJson =>
        /\ Len(ItemsOf(decisions.decisions, "recommendations")) = 1
        /\ DictGet(ItemsOf(decisions.decisions, "recommendations")[1], "priority", JNull)
             = JStr("High")

C5_Amended ==
    BothDecisionOutputsNotJson =>
        LET recs == ItemsOf(decisions.decisions, "recommendations")
        IN  /\ Len(recs) = 2
            /\ \A i \in 1..2 : Keys(recs[i]) = {"action", "rationale", "priority", "timeline"}
            /\ DictGet(recs[1], "priority", JNull) = JStr("High")
            /\ DictGet(recs[1], "timeline", JNull) = JStr("Short term")
            /\ DictGet(recs[2], "priority", JNull) = JStr("Medium")
            /\ DictGet(recs[2], "timeline", JNull) = JStr("Medium term")
            /\ Len(ItemsOf(decisions.decisions, "key_considerations")) = 2
            /\ Len(ItemsOf(decisions.decisions, "risk_mitigation")) = 2
            /\ Keys(decisions.decisions) =
                  {"recommendations", "key_considerations", "risk_mitigation"}

C5_Witness ==
    /\ pc = "c_format"
    /\ BothDecisionOutputsNotJson

(***************************************************************************)
(* C6: every record a stage hands on carries its required fields on every  *)
(* path: a research finding has query, findings, raw_search_results and    *)
(* agent_type; an analysis result has original_query, analysis and         *)
(* agent_type; a decision result has original_query, decisions and         *)
(* agent_type.                                                             *)
(***************************************************************************)
C6_WellFormedRecords ==
    /\ (research # Unbound =>
          {"query", "findings", "raw_search_results", "agent_type"} \subseteq DOMAIN research)
    /\ (analysis # Unbound =>
          {"original_query", "analysis", "agent_type"} \subseteq DOMAIN analysis)
    /\ (decisions # Unbound =>
          {"original_query", "decisions", "agent_type"} \subseteq DOMAIN decisions)

(***************************************************************************)
(* C7: the report process_query returns.  As claimed, every report,        *)
(* whatever its status, has query, summary, key_trends, business_impact,   *)
(* recommended_actions (each entry with action, priority, timeline and     *)
(* rationale), status and agent_execution_summary.  As amended, that holds *)
(* of a report with status completed; a report with status                 *)
(* completed_with_errors has query, summary, key_trends, business_impact,  *)
(* recommended_actions, status and error, no agent_execution_summary, and  *)
(* its one recommended action has only action and priority; a report with  *)
(* status failed has only error, query and status.                         *)
(***************************************************************************)
FullReportFields ==
    {"query", "summary", "key_trends", "business_impact", "recommended_actions",
     "status", "agent_execution_summary"}

FullReport(r) ==
    /\ FullReportFields \subseteq DOMAIN r
    /\ r.recommended_actions.t = "list"
    /\ \A i \in 1..Len(r.recommended_actions.items) :
          Keys(r.recommended_actions.items[i]) = {"action", "priority", "timeline", "rationale"}

C7_Original == pc \in Terminal => FullReport(report)

C7_Amended ==
    pc \in Terminal =>
        /\ report.query = query
        /\ (report.status = "completed" =>
              /\ DOMAIN report = FullReportFields
              /\ FullReport(report)
              /\ DOMAIN report.agent_execution_summary =
                    {"research_agent", "analysis_agent", "decision_agent"}
              /\ \A a \in DOMAIN report.agent_execution_summary :
                    report.agent_execution_summary[a] \in {"completed", "partial"})
        /\ (report.status = "completed_with_errors" =>
              /\ DOMAIN report = (FullReportFields \ {"agent_execution_summary"}) \cup {"error"}
              /\ Len(report.recommended_actions.items) = 1
              /\ Keys(report.recommended_actions.items[1]) = {"action", "priority"})
        /\ (report.status = "failed" => DOMAIN report = {"error", "query", "status"})

C7_Witness ==
    /\ pc = "COMPLETED"
    /\ Len(report.recommended_actions.items) = 2
    /\ Keys(ItemsOf(decisions.decisions, "recommendations")[2]) = {"action"}

(***************************************************************************)
(* C8: a missing GROQ_API_KEY.  As claimed, it is caught by the stages and *)
(* never propagates, from their construction to the end of process_query.  *)
(* As amended: when the orchestrator is constructed without the key, the   *)
(* constructor raises ValueError to its caller and process_query never     *)
(* runs; a key found missing during process_query (by the summarization    *)
(* tool or the decision tool, which build their LLM inside their try       *)
(* block) is turned into the tool's fallback and never propagates.         *)
(***************************************************************************)
C8_Original == ~escaped.raised

C8_Amended ==
    /\ (Faulted("init_no_key") =>
          /\ pc = "ctor_raised"
          /\ escaped = Exc(AuthMessage)
          /\ runs = 0)
    /\ (escaped.raised => pc = "ctor_raised")
    /\ pc # "pq_raised"
    /\ (~Faulted("stage_call_raised") =>
          /\ (Fault("summarize_llm_failed", AuthMessage) \in faults =>
                /\ pc \in {"r_llm"} \cup AfterResearch
                /\ (pc = "r_llm" => findings = SummarizationFallback(search_results)))
          /\ (Fault("tool_llm_failed", AuthMessage) \in faults =>
                /\ pc \in AfterDecision
                /\ decisions.decisions = DecisionToolFallback
                /\ ~InCalls("llm:decision_tool")))

C8_Witness ==
    /\ pc = "ctor_raised"
    /\ escaped = Exc(AuthMessage)

(***************************************************************************)
(* C9: in one run of process_query the stages start in the order research, *)
(* analysis, decision, format, each after the one before it has returned   *)
(* and none twice, and at most one search or LLM request is in flight.     *)
(***************************************************************************)
RequestsOf(stage) ==
    CASE stage = "research" -> {"http:search", "llm:summarize", "llm:research"}
      [] stage = "analysis" -> {"llm:analysis"}
      [] stage = "decision" -> {"llm:decision_tool", "llm:decision"}
      [] OTHER -> {}

C9_StagesInOrder ==
    /\ Len(stages) <= Len(StageOrder)
    /\ stages = SubSeq(StageOrder, 1, Len(stages))
    /\ Cardinality(inflight) <= 1
    /\ (inflight # {} => inflight \subseteq RequestsOf(stages[Len(stages)]))
    /\ (Len(stages) >= 2 => research # Unbound)
    /\ (Len(stages) >= 3 => analysis # Unbound)
    /\ (Len(stages) >= 4 => decisions # Unbound)
    /\ (Len(stages) < 2 => analysis = Unbound)
    /\ (Len(stages) < 3 => decisions = Unbound)
    /\ (Len(stages) < 4 => report = Unbound \/ pc = "FAILED")

C9_Witness ==
    /\ pc = "COMPLETED"
    /\ stages = StageOrder
    /\ InCalls("llm:summarize")
    /\ InCalls("llm:decision")

(***************************************************************************)
(* C10: FAILED is entered only from RESEARCHING, ANALYZING or DECIDING,    *)
(* only when the stage call raises to the coordinator, and then no later   *)
(* stage and no formatting runs and the report has status failed and an    *)
(* error message; COMPLETED_WITH_ERRORS is entered only from FORMATTING;   *)
(* FORMATTING never ends in FAILED.                                        *)
(***************************************************************************)
C10_FailedOnlyFromStages ==
    [][ /\ (pc' = "FAILED" /\ pc # "FAILED" =>
              /\ CoordState \in {"RESEARCHING", "ANALYZING", "DECIDING"}
              /\ \E f \in faults' : f.kind = "stage_call_raised"
              /\ report'.status = "failed"
              /\ "error" \in DOMAIN report'
              /\ report'.error.toks # <<>>
              /\ \A i \in 1..Len(stages') : stages'[i] # "format"
              /\ Len(stages') <= Len(stages) + 1)
        /\ (pc' = "COMPLETED_WITH_ERRORS" /\ pc # "COMPLETED_WITH_ERRORS" =>
              CoordState = "FORMATTING")
        /\ (CoordState = "FORMATTING" =>
              pc' \in {"c_format", "COMPLETED", "COMPLETED_WITH_ERRORS"})
        /\ (pc = "FAILED" /\ runs' = runs =>
              /\ pc' = "FAILED"
              /\ stages' = stages
              /\ calls' = calls
              /\ report' = report)
        /\ (pc' = "pq_raised" => FALSE)
      ]_vars

C10_Witness ==
    /\ pc = "FAILED"
    /\ stages = <<"research", "analysis">>
    /\ report.status = "failed"

(***************************************************************************)
(* C11: once research, analysis and decision have returned, the report has *)
(* status completed unless the projection raises; the projection raises    *)
(* when the analysis or the decisions value is JSON but no object, when    *)
(* recommendations is null, or when an entry of recommendations is no      *)
(* object, and then the report is the minimal degraded report with status  *)
(* completed_with_errors and a non-empty error message.                    *)
(***************************************************************************)
FormatRan == pc \in Terminal /\ stages = StageOrder

\* the values on which a .get or the iteration of the projection fails
ProjectionRaises ==
    \/ analysis.analysis.t # "obj"
    \/ decisions.decisions.t # "obj"
    \/ LET recs == DictGet(decisions.decisions, "recommendations", JList(<<>>))
       IN  \/ recs.t = "null"
           \/ recs.t = "list" /\ \E i \in 1..Len(recs.items) : recs.items[i].t # "obj"

\* the values the projection handles: objects, and a list of objects
ProjectionClean ==
    /\ analysis.analysis.t = "obj"
    /\ decisions.decisions.t = "obj"
    /\ LET recs == DictGet(decisions.decisions, "recommendations", JList(<<>>))
       IN  recs.t = "list" /\ \A i \in 1..Len(recs.items) : recs.items[i].t = "obj"

C11_DegradedOnlyWhenProjectionRaises ==
    FormatRan =>
        /\ report.status \in {"completed", "completed_with_errors"}
        /\ (ProjectionClean => report.status = "completed" /\ pc = "COMPLETED")
        /\ (ProjectionRaises =>
              /\ pc = "COMPLETED_WITH_ERRORS"
              /\ report.status = "completed_with_errors"
              /\ report.query = query
              /\ report.summary = Text(<<P("Analysis completed with partial results.")>>)
              /\ Len(report.key_trends.items) = 1
              /\ Len(report.recommended_actions.items) = 1
              /\ "error" \in DOMAIN report
              /\ report.error.toks # <<>>)
        /\ (report.status = "completed" => "error" \notin DOMAIN report)

C11_Witness ==
    /\ pc = "COMPLETED_WITH_ERRORS"
    /\ analysis.analysis.t = "obj"
    /\ decisions.decisions.t = "obj"
    /\ LET recs == DictGet(decisions.decisions, "recommendations", JList(<<>>))
       IN  recs.t = "list" /\ recs.items # <<>> /\ recs.items[1].t = "str"
    /\ report.error = Text(<<P("'str' object has no attribute 'get'")>>)

(***************************************************************************)
(* C12: one call of decide sends at most two LLM requests: at most one by  *)
(* the decision tool, then at most one by decide itself, and decide sends  *)
(* its own only when the output of the tool did not parse as JSON.         *)
(***************************************************************************)
CountCalls(c) == Cardinality({i \in 1..Len(calls) : calls[i] = c})

C12_AtMostTwoDecisionCalls ==
    /\ CountCalls("decision_tool") <= 1
    /\ CountCalls("llm:decision_tool") <= 1
    /\ CountCalls("llm:decision") <= 1
    /\ CountCalls("llm:decision_tool") + CountCalls("llm:decision") <= 2
    /\ (InCalls("llm:decision") =>
          /\ InCalls("llm:decision_tool")
          /\ calls[Len(calls)] = "llm:decision"
          /\ calls[Len(calls) - 1] = "llm:decision_tool")
    /\ (pc = "d_llm" =>
          /\ InCalls("llm:decision")
          /\ decision_output # Unbound
          /\ ~JsonLoads(decision_output).ok)

C12_Witness ==
    /\ pc = "c_format"
    /\ CountCalls("llm:decision_tool") = 1
    /\ CountCalls("llm:decision") = 1
    /\ "error" \notin DOMAIN decisions

(***************************************************************************)
(* C13: one call of analyze sends exactly one LLM request on every path:   *)
(* when the request raises or its text is not JSON the fallback analysis   *)
(* is returned at once, with no further request.                           *)
(***************************************************************************)
AnalysisBegun == \E i \in 1..Len(stages) : stages[i] = "analysis"

C13_OneAnalysisCall ==
    /\ CountCalls("llm:analysis") = (IF AnalysisBegun THEN 1 ELSE 0)
    /\ ("llm:analysis" \in inflight <=> pc = "a_llm")
    /\ (analysis # Unbound =>
          /\ CountCalls("llm:analysis") = 1
          /\ (Faulted("analysis_not_json") \/ Faulted("analysis_llm_failed") =>
                analysis.analysis = _create_fallback_analysis(research.findings)))

C13_Witness ==
    /\ pc = "c_decision"
    /\ Faulted("analysis_not_json")
    /\ CountCalls("llm:analysis") = 1
    /\ "error" \notin DOMAIN analysis

(***************************************************************************)
(* C14: in research the summarization tool is invoked once if the search   *)
(* result is longer than 500 characters and not at all otherwise (a result *)
(* of exactly 500 characters is used verbatim); when invoked it has        *)
(* returned before the research LLM request is sent; the search comes      *)
(* first.                                                                  *)
(***************************************************************************)
IndexOf(c) == CHOOSE i \in 1..Len(calls) : calls[i] = c

C14_SummarizeIffLong ==
    /\ CountCalls("summarization_tool") <= 1
    /\ CountCalls("llm:summarize") <= 1
    /\ CountCalls("search_tool") = (IF calls = <<>> THEN 0 ELSE 1)
    /\ (calls # <<>> => calls[1] = "search_tool")
    /\ (pc = "r_search" => ~InCalls("summarization_tool") /\ ~InCalls("llm:research"))
    /\ (pc \in {"r_summarize", "r_llm"} =>
          (InCalls("summarization_tool") <=> StrLen(search_results) > 500))
    /\ (pc = "r_summarize" => ~InCalls("llm:research") /\ inflight = {"llm:summarize"})
    /\ (InCalls("llm:summarize") => InCalls("summarization_tool"))
    /\ (InCalls("llm:research") =>
          /\ CountCalls("llm:research") = 1
          /\ (InCalls("summarization_tool") =>
                IndexOf("summarization_tool") < IndexOf("llm:research"))
          /\ (InCalls("llm:summarize") =>
                IndexOf("llm:summarize") < IndexOf("llm:research")))
    /\ (pc = "r_llm" =>
          /\ inflight = {"llm:research"}
          /\ findings # Unbound
          /\ (StrLen(search_results) <= 500 => findings = search_results))

C14_Witness ==
    /\ pc = "r_llm"
    /\ StrLen(search_results) = 501
    /\ calls = <<"search_tool", "http:search", "summarization_tool", "llm:summarize",
                 "llm:research">>
    /\ findings = Text(<<P("Adoption is growing:"), Ws, P("{"), P("}")>>)

(***************************************************************************)
(* C15: the recommended actions of the report.  As claimed, for every      *)
(* recommendation object of the decision result the report has one         *)
(* recommended action, in the same order, with exactly the keys action,    *)
(* priority, timeline and rationale: a present value unchanged, an absent  *)
(* priority "Medium", an absent timeline "Medium term", an absent action   *)
(* or rationale "".  As amended, that holds when the projection does not   *)
(* raise (report status completed); when it raises, because the analysis   *)
(* or decisions value is no object or some entry of recommendations is no  *)
(* object, the report has the single generic action of the degraded report *)
(* and none of the recommendation objects.                                 *)
(***************************************************************************)
ValueOr(rec, k, default) ==
    IF HasKey(rec, k) THEN DictGet(rec, k, JNull) ELSE JStr(default)

ExpectedAction(rec) ==
    JObj(<<KV("action", ValueOr(rec, "action", "")),
           KV("priority", ValueOr(rec, "priority", "Medium")),
           KV("timeline", ValueOr(rec, "timeline", "Medium term")),
           KV("rationale", ValueOr(rec, "rationale", ""))>>)

\* the entries of recommendations that are objects, in order
RecommendationObjects ==
    IF decisions.decisions.t = "obj"
    THEN SelectSeq(ItemsOf(decisions.decisions, "recommendations"), LAMBDA r : r.t = "obj")
    ELSE <<>>

C15_Original ==
    FormatRan =>
        report.recommended_actions.items =
            [i \in 1..Len(RecommendationObjects) |-> ExpectedAction(RecommendationObjects[i])]

C15_Amended ==
    FormatRan =>
        /\ (report.status = "completed" =>
              /\ RecommendationObjects = ItemsOf(decisions.decisions, "recommendations")
              /\ report.recommended_actions.items =
                    [i \in 1..Len(RecommendationObjects) |->
                        ExpectedAction(RecommendationObjects[i])]
              /\ \A i \in 1..Len(report.recommended_actions.items) :
                    Keys(report.recommended_actions.items[i]) =
                        {"action", "priority", "timeline", "rationale"})
        /\ (report.status = "completed_with_errors" =>
              report.recommended_actions.items =
                  <<JObj(<<KV("action", JStr("Continue monitoring AI developments")),
                           KV("priority", JStr("Medium"))>>)>>)

C15_Witness ==
    /\ pc = "COMPLETED"
    /\ Len(RecommendationObjects) = 2
    /\ ~HasKey(RecommendationObjects[2], "priority")
    /\ report.recommended_actions.items[1] =
          JObj(<<KV("action", JStr("Adopt AI tooling")), KV("priority", JStr("Low")),
                 KV("timeline", JStr("Long term")), KV("rationale", JStr("Cost"))>>)
    /\ report.recommended_actions.items[2] =
          JObj(<<KV("action", JStr("Train staff")), KV("priority", JStr("Medium")),
                 KV("timeline", JStr("Medium term")), KV("rationale", JStr(""))>>)

(***************************************************************************)
(* C16: an analysis LLM text that is valid JSON with only key_trends       *)
(* populated.  As claimed, the analysis result still has the keys risks,   *)
(* opportunities, business_impact and market_dynamics, and its content is  *)
(* the LLM's output, not the fallback.  As amended, the analysis field is  *)
(* exactly the value parsed from the LLM's text: keys the LLM left out are *)
(* absent from it, nothing is filled in and the fallback is substituted    *)
(* only after a parse failure or an exception; the report then takes       *)
(* key_trends from it and an empty business_impact.                        *)
(***************************************************************************)
AnalysisFields == {"key_trends", "risks", "opportunities", "business_impact",
                   "market_dynamics"}

\* the analysis LLM answered, with text that parsed
AnalysisParsed ==
    /\ analysis # Unbound
    /\ ~Faulted("analysis_not_json")
    /\ ~Faulted("analysis_llm_failed")

OnlyKeyTrendsPopulated(v) ==
    /\ v.t = "obj"
    /\ Truthy(DictGet(v, "key_trends", JNull))
    /\ \A k \in AnalysisFields \ {"key_trends"} : ~Truthy(DictGet(v, k, JNull))

ParsedContents == {JsonLoads(Strip(c)).val : c \in {x \in Contents : JsonLoads(Strip(x)).ok}}

C16_Original ==
    (AnalysisParsed /\ OnlyKeyTrendsPopulated(analysis.analysis)) =>
        /\ AnalysisFields \subseteq Keys(analysis.analysis)
        /\ analysis.analysis # _create_fallback_analysis(research.findings)

C16_Amended ==
    /\ (AnalysisParsed =>
          /\ analysis.analysis \in ParsedContents
          /\ analysis.analysis # _create_fallback_analysis(research.findings)
          /\ "error" \notin DOMAIN analysis)
    /\ (analysis # Unbound /\ analysis.analysis = _create_fallback_analysis(research.findings)
          => Faulted("analysis_not_json") \/ Faulted("analysis_llm_failed"))
    /\ (AnalysisParsed /\ OnlyKeyTrendsPopulated(analysis.analysis) /\ pc = "COMPLETED" =>
          /\ report.key_trends = DictGet(analysis.analysis, "key_trends", JNull)
          /\ report.business_impact = JObj(<<>>))

C16_Witness ==
    /\ pc = "COMPLETED"
    /\ AnalysisParsed
    /\ analysis.analysis =
          JObj(<<KV("key_trends", JList(<<JStr("Trend 1"), JStr("Trend 2")>>))>>)
    /\ report.agent_execution_summary.analysis_agent = "completed"

(***************************************************************************)
(* C17: process_query is a function of the query and of the responses of   *)
(* its collaborators: a run that is given the query and the responses of   *)
(* the run before it, failures included, sends the same requests in the    *)
(* same order and returns the same report, whatever the run before it left *)
(* behind.  (Under TwinSpec.)                                              *)
(***************************************************************************)
\* the responses the request awaited at pc can be given
AwaitedInputs ==
    CASE pc = "r_search" -> {InHttpKey(http, key) : http \in TwinHttp, key \in {TRUE}}
      [] pc = "r_summarize" -> {InLLM(llm, NoExc) : llm \in TwinLLM}
      [] pc \in {"r_llm", "a_llm", "d_tool", "d_llm"} ->
            {InLLM(llm, esc) : llm \in TwinLLM, esc \in StageEscapes}
      [] pc = "c_decision" -> {InKey(TRUE, NoExc)}
      [] OTHER -> {}

SummarizationFellBack ==
    /\ pc = "r_llm"
    /\ InCalls("summarization_tool")
    /\ Faulted("summarize_llm_failed")

C18_Original ==
    SummarizationFellBack =>
        /\ "segs" \in DOMAIN findings
        /\ StrLen(findings) < StrLen(search_results)

C18_Amended ==
    SummarizationFellBack =>
        /\ "segs" \in DOMAIN findings
        /\ StrLen(search_results) > 500
        /\ (WordCount(search_results) <= 100 => findings = search_results)
        /\ (WordCount(search_results) > 100 =>
              LET n == Len(search_results.segs)
                  k == Len(findings.segs) - 1
              IN  /\ k >= 1 /\ k <= 3 /\ k <= n
                  /\ findings.segs[k + 1] = Seg(0, 0, FALSE)
                  /\ findings.segs[1] = search_results.segs[1]
                  /\ (n >= 2 =>
                        /\ k >= 2
                        /\ findings.segs[2].chars = search_results.segs[2].chars + 1
                        /\ findings.segs[2].words = search_results.segs[2].words)
                  /\ (k = 3 =>
                        /\ findings.segs[3].ai
                        /\ \E j \in 3..5 :
                              /\ j <= n
                              /\ search_results.segs[j].ai
                              /\ findings.segs[3].chars = search_results.segs[j].chars + 1)
                  /\ (k < 3 => \A j \in 3..5 : j <= n => ~search_results.segs[j].ai)
                  /\ (n <= 2 => StrLen(findings) = StrLen(search_results) + n))

C18_Witness ==
    /\ SummarizationFellBack
    /\ WordCount(search_results) > 100
    /\ Len(search_results.segs) = 2
    /\ StrLen(findings) > StrLen(search_results)

(***************************************************************************)
(* C19: degraded stages do not show in the status.  If research, analysis  *)
(* and decision all returned their fallback values, the report has status  *)
(* completed, no error field, and "completed" for every stage in           *)
(* agent_execution_summary.  In a completed report a stage is "partial"    *)
(* exactly when its findings, analysis or decisions value is empty.        *)
(***************************************************************************)
AllStagesFellBack ==
    /\ research.findings = ResearchFallbackFindings(query)
    /\ analysis.analysis = _create_fallback_analysis(research.findings)
    /\ decisions.decisions \in {DecisionToolFallback, _create_fallback_decisions}

C19_DegradationNotInStatus ==
    FormatRan =>
        /\ (AllStagesFellBack =>
              /\ pc = "COMPLETED"
              /\ report.status = "completed"
              /\ "error" \notin DOMAIN report
              /\ \A a \in DOMAIN report.agent_execution_summary :
                    report.agent_execution_summary[a] = "completed")
        /\ (pc = "COMPLETED" =>
              /\ (report.agent_execution_summary.research_agent = "partial"
                    <=> research.findings = Text(<<>>))
              /\ (report.agent_execution_summary.analysis_agent = "partial"
                    <=> analysis.analysis = JObj(<<>>))
              /\ (report.agent_execution_summary.decision_agent = "partial"
                    <=> decisions.decisions = JObj(<<>>)))

C19_Witness ==
    /\ pc = "COMPLETED"
    /\ AllStagesFellBack
    /\ "error" \in DOMAIN research
    /\ "error" \in DOMAIN analysis
    /\ "error" \in DOMAIN decisions
    /\ decisions.decisions = _create_fallback_decisions

(***************************************************************************)
(* C20: if the LLM call of the decision tool raises, the tool returns its  *)
(* one-item fallback as JSON text, decide parses it, and the decision      *)
(* result holds that fallback, has no error field, and no second LLM call  *)
(* was made.  If the tool's output is not JSON and the second LLM call     *)
(* raises, the decision result holds the fallback of DecisionAgent and an  *)
(* error field with the text of the exception.                             *)
(***************************************************************************)
C20_ToolFallbackParses ==
    decisions # Unbound =>
        /\ (Faulted("tool_llm_failed") =>
              /\ decisions.decisions = DecisionToolFallback
              /\ Len(ItemsOf(decisions.decisions, "recommendations")) = 1
              /\ "error" \notin DOMAIN decisions
              /\ ~InCalls("llm:decision")
              /\ ~Faulted("decision_not_json"))
        /\ (Faulted("decision_not_json") /\ Faulted("decision_llm_failed") =>
              /\ decisions.decisions = _create_fallback_decisions
              /\ "error" \in DOMAIN decisions
              /\ \E f \in faults :
                    /\ f.kind = "decision_llm_failed"
                    /\ decisions.error = (IF f.msg = "" THEN Text(<<>>)
                                          ELSE Text(<<P(f.msg)>>))
              /\ decisions.original_query = query)

C20_Witness ==
    /\ pc = "c_format"
    /\ Fault("tool_llm_failed", "Request timed out.") \in faults
    /\ InCalls("llm:decision_tool")
    /\ decisions.decisions = DecisionToolFallback
    /\ "error" \notin DOMAIN decisions

(***************************************************************************)
(* C21: a stage result carries an error field exactly when the stage's     *)
(* outer exception handler built it.  A result of the normal path has      *)
(* none, also when its analysis or decisions value is the fallback put in  *)
(* after a JSON parse failure; a result of the handler has the stage's     *)
(* fallback value and the error field.                                     *)
(***************************************************************************)
HasError(r) == "error" \in DOMAIN r

C21_ErrorIffHandlerRan ==
    /\ (research # Unbound =>
          /\ (HasError(research) <=> Faulted("research_llm_failed"))
          /\ (HasError(research) =>
                research.findings = ResearchFallbackFindings(query)))
    /\ (analysis # Unbound =>
          /\ (HasError(analysis) <=> Faulted("analysis_llm_failed"))
          /\ (Faulted("analysis_not_json") =>
                /\ ~HasError(analysis)
                /\ analysis.analysis = _create_fallback_analysis(research.findings))
          /\ (HasError(analysis) =>
                analysis.analysis = _create_fallback_analysis(research.findings)))
    /\ (decisions # Unbound =>
          /\ (HasError(decisions) <=> Faulted("decision_llm_failed"))
          /\ (Faulted("decision_not_json_2") =>
                /\ ~HasError(decisions)
                /\ decisions.decisions = _create_fallback_decisions)
          /\ (Faulted("tool_llm_failed") => ~HasError(decisions))
          /\ (HasError(decisions) => decisions.decisions = _create_fallback_decisions))

C21_Witness ==
    /\ pc = "c_format"
    /\ HasError(research)
    /\ Faulted("analysis_not_json")
    /\ ~HasError(analysis)
    /\ HasError(decisions)
    /\ decisions.error = Text(<<P("Request timed out.")>>)

====
